---- MODULE Spec2Model ----
(***************************************************************************)
(* Chain-synchronisation engine of polymesh_api_example_gui.               *)
(*                                                                         *)
(*   src/src/app/mod.rs      BackendState: the caches, the preload state   *)
(*                           machine and the poll loop (backend_updates).  *)
(*   src/src/backend/mod.rs  Backend (the two bounded channels),           *)
(*                           SpawnBackend / InnerBackend (the worker) and  *)
(*                           HeaderWatcher (the subscription task).        *)
(*                                                                         *)
(* SpecIngest feeds backend_updates with every sequence of events over the *)
(* blocks of Spec.  Spec is the whole system: consumer, worker, header     *)
(* watchers and the two channels, with failing RPC calls and a change of   *)
(* url.  The other specifications are the system left alone on its first   *)
(* url, with fairness, for liveness: SpecPreload on a chain that keeps     *)
(* growing, SpecConnect with failing RPC calls, SpecStream with header     *)
(* subscriptions that fail, SpecShutdown with a consumer that goes away,   *)
(* SpecDetails with the block details view (BlockDetailsApp) opened on     *)
(* anchors the user navigates to.                                          *)
(***************************************************************************)
EXTENDS Integers, Sequences, FiniteSets, TLC

(***************************************************************************)
(* Program constants, scaled down so that the caches fill up and evict     *)
(* within a few steps (the source values are 2000, 2000, 1000 and 16).     *)
(***************************************************************************)
MAX_RECENT_BLOCKS == 2

MAX_RECENT_EVENTS == 2

PRELOAD_BLOCKS == 2

ChannelCapacity == 1

(***************************************************************************)
(* Bounds of the model: RPC calls that fail, calls of set_url.             *)
(***************************************************************************)
MaxFailures == 1

MaxUrlSets == 1

(***************************************************************************)
(* The nodes and their chains.  Urls "A" and "B" serve the same chain      *)
(* (same genesis), url "C" serves another one.  A block hash is a number;  *)
(* ZeroHash is H256::zero(), the parent hash of every genesis block, which *)
(* no node resolves.                                                       *)
(***************************************************************************)
Urls == {"A", "B", "C"}

NoUrl == ""

ChainOfUrl(u) == IF u = "C" THEN 2 ELSE 1

ZeroHash == 0

\* The heads each chain announces, in the order it produces them.  Chain 1
\* forks at height 2: 22 is a second block #2 on top of 11; 13 and 14 extend 12.
Produced(c) == IF c = 1 THEN <<10, 11, 12, 22, 13, 14>> ELSE <<50, 51>>

Chains == {1, 2}

BlockHashes == {10, 11, 12, 22, 13, 14, 50, 51}

ChainOf(h) == IF h >= 50 THEN 2 ELSE 1

\* Header: number, parent_hash and the roots that tell two siblings apart.
HeaderOf(h) ==
    CASE h = 10 -> [number |-> 0, parent_hash |-> ZeroHash, root |-> "r10"]
      [] h = 11 -> [number |-> 1, parent_hash |-> 10, root |-> "r11"]
      [] h = 12 -> [number |-> 2, parent_hash |-> 11, root |-> "r12"]
      [] h = 22 -> [number |-> 2, parent_hash |-> 11, root |-> "r22"]
      [] h = 13 -> [number |-> 3, parent_hash |-> 12, root |-> "r13"]
      [] h = 14 -> [number |-> 4, parent_hash |-> 13, root |-> "r14"]
      [] h = 50 -> [number |-> 0, parent_hash |-> ZeroHash, root |-> "r50"]
      [] h = 51 -> [number |-> 1, parent_hash |-> 50, root |-> "r51"]

Headers == {HeaderOf(h) : h \in BlockHashes}

\* header.hash(): the hash is derived from the header's content.
HeaderHash(header) == CHOOSE h \in BlockHashes : HeaderOf(h) = header

\* The event labels the node reports for a block.  EventInfo::new formats a
\* label as "{mod_name}.{name}"; the model keeps the two parts, <<mod_name, name>>.
EventNames(h) ==
    CASE h = 11 -> << <<"System", "ExtrinsicSuccess">>, <<"Balances", "Transfer">>,
                      <<"Balances", "Transfer">> >>
      [] h = 12 -> << <<"Balances", "Transfer">>, <<"System", "ExtrinsicSuccess">>,
                      <<"Staking", "Reward">> >>
      [] h = 22 -> << <<"Staking", "Reward">> >>
      [] h = 51 -> << <<"Balances", "Transfer">> >>
      [] OTHER -> << <<"System", "ExtrinsicSuccess">> >>

\* push_block: EventInfo::new(header.number, idx, ev) for each event of the block.
BlockEvents(header) ==
    LET names == EventNames(HeaderHash(header))
    IN  [i \in 1..Len(names) |->
            [block |-> header.number, number |-> i - 1, name |-> names[i]]]

MakeBlockInfo(header) ==
    [hash |-> HeaderHash(header), header |-> header, events |-> BlockEvents(header)]

BlockInfos == {MakeBlockInfo(hd) : hd \in Headers}

GenesisOf(c) == Produced(c)[1]

\* How many of its heads a chain has produced when the program starts: chain 1 is
\* at height 2 and has its second block #2 still to come, chain 2 is at height 1.
InitialHead(c) == IF c = 1 THEN 3 ELSE 2

\* How many of its heads a chain produces in all while the program runs: in
\* Spec chain 1 stops after its second block #2, in SpecPreload it goes on.
FinalHead(c) == IF c = 1 THEN 4 ELSE 2

FinalHeadLong(c) == Len(Produced(c))

(***************************************************************************)
(* Messages of the two channels.                                           *)
(***************************************************************************)
ConnectTo(u) == [type |-> "ConnectTo", url |-> u]

GetBlockInfo(h) == [type |-> "GetBlockInfo", hash |-> h]

\* The GetBlockInfo request issued by next_preload.  The field preload is not
\* in the program: it records which call site issued the request.
PreloadRequest(h) == [type |-> "GetBlockInfo", hash |-> h, preload |-> TRUE]

Connected(g, r) == [type |-> "Connected", genesis |-> g, is_reconnect |-> r]

NewHeader(hd) == [type |-> "NewHeader", header |-> hd]

\* via is not part of the message: it records the url of the Api the worker
\* fetched the block with.
BlockInfoEvent(b, u) == [type |-> "BlockInfo", block |-> b, via |-> u]

\* Option<T>: None is the empty sequence, Some(x) is <<x>>.
None == <<>>

Some(x) == <<x>>

VARIABLES
    \* BackendState (app/mod.rs)
    url, need_save, genesis_hash, preload_blocks, preload_next, best_block,
    hash_to_number, blocks, recent_blocks, recent_events,
    \* Backend (backend/mod.rs): the url last handed to connect_to, the two channels
    backend_url, req_rx, event_rx,
    \* the request the consumer is blocked on inside blocking_send, if any
    blocked_send,
    \* the worker (SpawnBackend::run_backend, InnerBackend::start / run): where it
    \* is, the url of its Api, start's is_reconnect, the event it is sending
    w_pc, api, is_reconnect, w_out,
    \* the HeaderWatcher tasks alive, each with the chain of its subscription and
    \* the index in Produced of the next head it yields
    watchers,
    \* the nodes: per chain, how many of its heads have been produced, and how
    \* many will be in all
    head, final_head,
    \* how many RPC calls have failed and how often set_url was called (bounded)
    failures, url_sets,
    \* history: the caches hold something stored over a connection to another url
    \* than the one last requested, and clear() has not run since
    old_data,
    \* the consumer has dropped its Backend: the receiver of the event channel
    \* and the sender of the request channel are gone
    closed,
    \* State (app/mod.rs): the navigation anchor, and how often it was changed
    current_anchor, anchor_sets,
    \* BlockDetailsApp, and what parse_anchor_and_load_block returned last
    last_anchor, block_hash, requested, res

engine_vars == <<genesis_hash, preload_blocks, preload_next, best_block,
                 hash_to_number, blocks, recent_blocks, recent_events>>

vars == <<url, need_save, genesis_hash, preload_blocks, preload_next, best_block,
          hash_to_number, blocks, recent_blocks, recent_events,
          backend_url, req_rx, event_rx, blocked_send,
          w_pc, api, is_reconnect, w_out, watchers, head, failures, url_sets,
          old_data, final_head, closed,
          current_anchor, anchor_sets, last_anchor, block_hash, requested, res>>

details_vars == <<current_anchor, anchor_sets, last_anchor, block_hash, requested, res>>

worker_vars == <<w_pc, api, is_reconnect, w_out>>

env_vars == <<watchers, head, failures, final_head>>

Min(a, b) == IF a < b THEN a ELSE b

Range(s) == {s[i] : i \in 1..Len(s)}

Reverse(s) == [i \in 1..Len(s) |-> s[Len(s) + 1 - i]]

\* HashMap::insert(k, v)
Insert(f, k, v) == [x \in DOMAIN f \cup {k} |-> IF x = k THEN v ELSE f[x]]

\* HashMap with the keys in ks removed
Remove(f, ks) == [x \in DOMAIN f \ ks |-> f[x]]

EmptyMap == [x \in {} |-> 0]

\* The orders in which a HashMap of these values can be iterated.
IterationOrders(S) == {s \in [1..Cardinality(S) -> S] : Range(s) = S}

(***************************************************************************)
(* The chain state of BackendState as one value, so that the steps of a    *)
(* handler compose in program order.                                       *)
(***************************************************************************)
ChainState ==
    [genesis_hash |-> genesis_hash, best_block |-> best_block,
     preload_blocks |-> preload_blocks, preload_next |-> preload_next,
     hash_to_number |-> hash_to_number, blocks |-> blocks,
     recent_blocks |-> recent_blocks, recent_events |-> recent_events]

Becomes(s) ==
    /\ genesis_hash' = s.genesis_hash
    /\ best_block' = s.best_block
    /\ preload_blocks' = s.preload_blocks
    /\ preload_next' = s.preload_next
    /\ hash_to_number' = s.hash_to_number
    /\ blocks' = s.blocks
    /\ recent_blocks' = s.recent_blocks
    /\ recent_events' = s.recent_events

\* impl Default for BackendState (the chain state part)
DefaultState ==
    [genesis_hash |-> None, best_block |-> 0,
     preload_blocks |-> PRELOAD_BLOCKS, preload_next |-> None,
     hash_to_number |-> EmptyMap, blocks |-> EmptyMap,
     recent_blocks |-> <<>>, recent_events |-> <<>>]

\* A clear that forgets the hash index.
clear_keeps_index(s) ==
    [s EXCEPT !.genesis_hash = None, !.best_block = 0,
              !.preload_blocks = PRELOAD_BLOCKS, !.preload_next = None,
              !.blocks = EmptyMap,
              !.recent_blocks = <<>>, !.recent_events = <<>>]

\* BackendState::clear
clear(s) ==
    [s EXCEPT !.genesis_hash = None, !.best_block = 0,
              !.preload_blocks = PRELOAD_BLOCKS, !.preload_next = None,
              !.hash_to_number = EmptyMap, !.blocks = EmptyMap,
              !.recent_blocks = <<>>, !.recent_events = <<>>]

(***************************************************************************)
(* backend_updates, the Connected arm: clear on a reconnect that reports   *)
(* another genesis, then record the genesis.                               *)
(***************************************************************************)
\* Faulty variants of the test: clear on every reconnect; never clear; clear
\* on another genesis at the first connection only.
ClearsOnAnyReconnect(s, genesis, reconnect) == reconnect

ClearsNever(s, genesis, reconnect) == FALSE

ClearsOnFirstConnect(s, genesis, reconnect) ==
    ~reconnect /\ s.genesis_hash # Some(genesis)

ClearsOnConnected(s, genesis, reconnect) ==
    reconnect /\ s.genesis_hash # Some(genesis)

HandleConnected(s, genesis, reconnect) ==
    LET c == IF ClearsOnConnected(s, genesis, reconnect) THEN clear(s) ELSE s
    IN  [c EXCEPT !.genesis_hash = Some(genesis)]

(***************************************************************************)
(* BackendState::next_preload: the state after it, and the request it      *)
(* sends (at most one).                                                    *)
(***************************************************************************)
\* A faulty variant of the test: without the comparison with preload_next.
PreloadAdvancesOnAny(s, block) == s.preload_blocks # 0

PreloadAdvances(s, block) ==
    /\ s.preload_blocks # 0
    /\ s.preload_next # None => s.preload_next[1] = block.hash

next_preload(s, block) ==
    IF PreloadAdvances(s, block)
    THEN [s |-> [s EXCEPT !.preload_blocks = s.preload_blocks - 1,
                          !.preload_next = Some(block.header.parent_hash)],
          sent |-> <<PreloadRequest(block.header.parent_hash)>>]
    ELSE [s |-> s, sent |-> <<>>]

(***************************************************************************)
(* backend_updates, the BlockInfo arm.                                     *)
(***************************************************************************)
IsBest(s, number) == number > s.best_block

\* A faulty variant of the test: nothing is ignored.
IgnoredNever(name) == FALSE

\* event.name.starts_with("System.")
Ignored(name) == name[1] = "System"

\* The fold over block.events: one BlockEventSummary per (block, name) that is
\* not ignored, taken from the first event with that name, counting the others.
EventSummaries(block) ==
    LET evs == block.events
        kept == {i \in 1..Len(evs) : ~Ignored(evs[i].name)}
        first == {i \in kept : \A j \in kept : evs[j].name = evs[i].name => i <= j}
    IN  {[block |-> evs[i].block, number |-> evs[i].number, name |-> evs[i].name,
          count |-> Cardinality({j \in kept : evs[j].name = evs[i].name})] : i \in first}

\* for_each over the folded map, in its iteration order: push_front or push_back.
PushEvents(events, order, is_best) ==
    IF is_best THEN Reverse(order) \o events ELSE events \o order

\* A trim that pops nothing.
TrimEventsNothing(events) == events

\* while recent_events.len() > MAX_RECENT_EVENTS { pop_back }
TrimEvents(events) == SubSeq(events, 1, Min(Len(events), MAX_RECENT_EVENTS))

\* Faulty variants of the push: without the test of insert's result; always
\* at the front.
PushBlockAlways(recent, number, is_best, was_absent) ==
    IF is_best THEN <<number>> \o recent ELSE Append(recent, number)

PushBlockFront(recent, number, is_best, was_absent) ==
    IF ~was_absent THEN recent ELSE <<number>> \o recent

\* recent_blocks.push_front / push_back, only when blocks.insert returned None
PushBlock(recent, number, is_best, was_absent) ==
    IF ~was_absent THEN recent
    ELSE IF is_best THEN <<number>> \o recent
    ELSE Append(recent, number)

\* A faulty variant of the trim: pops at the front.
TrimBlocksFront(recent) ==
    SubSeq(recent, Len(recent) - Min(Len(recent), MAX_RECENT_BLOCKS) + 1, Len(recent))

\* while recent_blocks.len() > MAX_RECENT_BLOCKS { pop_back }: what stays
TrimBlocks(recent) == SubSeq(recent, 1, Min(Len(recent), MAX_RECENT_BLOCKS))

\* ... and the numbers popped, each removed from blocks
Popped(recent) == {recent[i] : i \in (MAX_RECENT_BLOCKS + 1)..Len(recent)}

\* A faulty variant of the update: the last block ingested is the best.
UpdateBestAlways(s, number) == [s EXCEPT !.best_block = number]

\* if is_best { self.best_block = number }
UpdateBest(s, number) ==
    IF IsBest(s, number) THEN [s EXCEPT !.best_block = number] ELSE s

UpdateBlocks(s, block, is_best) ==
    LET number == block.header.number
        pushed == PushBlock(s.recent_blocks, number, is_best, number \notin DOMAIN s.blocks)
    IN  [s EXCEPT !.hash_to_number = Insert(s.hash_to_number, block.hash, number),
                  !.blocks = Remove(Insert(s.blocks, number, block), Popped(pushed)),
                  !.recent_blocks = TrimBlocks(pushed)]

UpdateEvents(s, order, is_best) ==
    [s EXCEPT !.recent_events = TrimEvents(PushEvents(s.recent_events, order, is_best))]

HandleBlockInfo(s, block, order) ==
    LET number == block.header.number
        is_best == IsBest(s, number)
        pre == next_preload(UpdateBest(s, number), block)
    IN  [s |-> UpdateBlocks(UpdateEvents(pre.s, order, is_best), block, is_best),
         sent |-> pre.sent]

(***************************************************************************)
(* The consumer (the UI thread).                                           *)
(***************************************************************************)
\* req_tx.blocking_send of the requests a handler issues (none or one): the
\* request is queued if the channel has room, else the consumer stays blocked
\* inside blocking_send, holding it.
Send(sent) ==
    IF sent = <<>> THEN UNCHANGED <<req_rx, blocked_send>>
    ELSE IF Len(req_rx) < ChannelCapacity
    THEN req_rx' = Append(req_rx, sent[1]) /\ blocked_send' = None
    ELSE blocked_send' = Some(sent[1]) /\ UNCHANGED req_rx

\* The blocked blocking_send returns once the worker has made room.
BlockingSendReturns ==
    /\ ~closed
    /\ blocked_send # None
    /\ Len(req_rx) < ChannelCapacity
    /\ req_rx' = Append(req_rx, blocked_send[1])
    /\ blocked_send' = None
    /\ UNCHANGED <<details_vars, closed, url, need_save, backend_url, event_rx, engine_vars, worker_vars,
                   env_vars, url_sets, old_data>>

\* One iteration of the loop of backend_updates: next_update() returned an event.
\* (The loop ends after MAX_BACKEND_UPDATES iterations or on an empty channel;
\* the other consumer steps below run between two calls of backend_updates.)
backend_updates ==
    /\ ~closed
    /\ blocked_send = None
    /\ event_rx # <<>>
    /\ event_rx' = Tail(event_rx)
    /\ LET ev == Head(event_rx)
       IN  CASE ev.type = "Connected" ->
                  /\ Becomes(HandleConnected(ChainState, ev.genesis, ev.is_reconnect))
                  /\ Send(<<>>)
                  /\ old_data' = (old_data /\ DOMAIN hash_to_number' # {})
             [] ev.type = "NewHeader" ->
                  /\ UNCHANGED engine_vars
                  /\ Send(<<GetBlockInfo(HeaderHash(ev.header))>>)
                  /\ UNCHANGED old_data
             [] ev.type = "BlockInfo" ->
                  /\ \E order \in IterationOrders(EventSummaries(ev.block)) :
                         LET r == HandleBlockInfo(ChainState, ev.block, order)
                         IN  Becomes(r.s) /\ Send(r.sent)
                  /\ old_data' = (old_data \/ ev.via # backend_url)
    /\ UNCHANGED <<details_vars, closed, url, need_save, backend_url, worker_vars, env_vars, url_sets>>

\* BackendState::set_url (a button of the side panel)
set_url(u) ==
    /\ ~closed
    /\ blocked_send = None
    /\ url_sets < MaxUrlSets
    /\ url_sets' = url_sets + 1
    /\ url' = u
    /\ need_save' = TRUE
    /\ UNCHANGED <<details_vars, closed, backend_url, req_rx, event_rx, blocked_send, engine_vars,
                   worker_vars, env_vars, old_data>>

\* BackendState::check_need_save, with check_node_url, connect and
\* Backend::connect_to inlined.
check_need_save ==
    /\ ~closed
    /\ blocked_send = None
    /\ need_save
    /\ need_save' = FALSE
    /\ IF backend_url # url
       THEN /\ backend_url' = url
            /\ Send(<<ConnectTo(url)>>)
            /\ old_data' = (DOMAIN hash_to_number # {})
       ELSE UNCHANGED <<backend_url, req_rx, blocked_send, old_data>>
    /\ UNCHANGED <<details_vars, closed, url, event_rx, engine_vars, worker_vars, env_vars, url_sets>>

(***************************************************************************)
(* The block details view (BlockDetailsApp).  An anchor is the sequence of *)
(* the sub-app prefix and the characters after it.  The width of a block   *)
(* hash is scaled down from 32 bytes to HashBytes, so that the hex text of *)
(* a hash has 2 * HashBytes digits.                                        *)
(***************************************************************************)
MaxAnchorSets == 1

HashBytes == 1

EXPLORER == "explorer"

BLOCK_DETAILS == "block_details/"

HexChars == <<"0", "1", "2", "3", "4", "5", "6", "7", "8", "9", "a", "b", "c", "d", "e", "f">>

IsHex(ch) == \E i \in 1..Len(HexChars) : HexChars[i] = ch

HexValue(ch) == (CHOOSE i \in 1..Len(HexChars) : HexChars[i] = ch) - 1

\* hex::decode: Err on an odd length or a character that is no hex digit
hex_decode(s) ==
    IF Len(s) % 2 # 0 \/ \E i \in 1..Len(s) : ~IsHex(s[i])
    THEN None
    ELSE Some([i \in 1..(Len(s) \div 2) |->
                  16 * HexValue(s[2 * i - 1]) + HexValue(s[2 * i])])

\* BlockHash::from_slice: the bytes, big-endian, as the number standing for
\* the hash
RECURSIVE from_slice(_)
from_slice(raw) ==
    IF raw = <<>> THEN 0
    ELSE 256 * from_slice(SubSeq(raw, 1, Len(raw) - 1)) + raw[Len(raw)]

\* anchor.strip_prefix(self.anchor())
strip_prefix(anchor, prefix) ==
    IF anchor # <<>> /\ anchor[1] = prefix THEN Some(Tail(anchor)) ELSE None

\* param.starts_with("0x")
starts_with_0x(param) == Len(param) >= 2 /\ param[1] = "0" /\ param[2] = "x"

\* "Parse block hash": Some(hash), or None for text that is not the hex of
\* exactly HashBytes bytes
ParseHash(param) ==
    LET raw == hex_decode(SubSeq(param, 3, Len(param)))
    IN  IF raw # None /\ Len(raw[1]) = HashBytes THEN Some(from_slice(raw[1])) ELSE None

\* The anchors the user navigates to: the two sub-apps, blocks 10, 12 and 22
\* by hash, and text that is no block hash (a character that is no hex
\* digit, an odd number of digits, too many bytes, a block number).
Anchors ==
    {<<EXPLORER>>,
     <<BLOCK_DETAILS>>,
     <<BLOCK_DETAILS, "0", "x", "0", "a">>,
     <<BLOCK_DETAILS, "0", "x", "0", "c">>,
     <<BLOCK_DETAILS, "0", "x", "1", "6">>,
     <<BLOCK_DETAILS, "0", "x", "0", "g">>,
     <<BLOCK_DETAILS, "0", "x", "0">>,
     <<BLOCK_DETAILS, "0", "x", "0", "c", "0", "c">>,
     <<BLOCK_DETAILS, "2">>}

Ok(x) == [type |-> "Ok", value |-> x]

Err(msg) == [type |-> "Err", msg |-> msg]

\* res before the first call
NotCalled == [type |-> "NotCalled"]

\* hash_to_number.get(&hash).and_then(|number| blocks.get(number))
Lookup(h) ==
    IF h \in DOMAIN hash_to_number /\ hash_to_number[h] \in DOMAIN blocks
    THEN Some(blocks[hash_to_number[h]])
    ELSE None

\* parse_anchor_and_load_block, from "Check if the block is already loaded":
\* the fields after it, what it returns and the request it sends.
LoadBlock(anchor, hash, req) ==
    LET block == Lookup(hash)
    IN  IF block # None
        THEN [last_anchor |-> anchor, block_hash |-> hash, requested |-> req,
              res |-> Ok(block), sent |-> <<>>]
        ELSE IF ~req
        THEN [last_anchor |-> anchor, block_hash |-> hash, requested |-> TRUE,
              res |-> Ok(None), sent |-> <<GetBlockInfo(hash)>>]
        ELSE [last_anchor |-> anchor, block_hash |-> hash, requested |-> req,
              res |-> Ok(None), sent |-> <<>>]

\* An early return of parse_anchor_and_load_block, after last_anchor was set.
Return(anchor, r) ==
    [last_anchor |-> anchor, block_hash |-> block_hash, requested |-> requested,
     res |-> r, sent |-> <<>>]

\* BlockDetailsApp::parse_anchor_and_load_block(backend, anchor)
ParseAnchorAndLoadBlock(anchor) ==
    IF last_anchor # anchor
    THEN LET param == strip_prefix(anchor, BLOCK_DETAILS)
         IN  IF param = None
             THEN Return(anchor, Err("Failed to parse nav anchor"))
             ELSE IF Len(param[1]) = 0
             THEN Return(anchor, Ok(IF best_block \in DOMAIN blocks
                                    THEN Some(blocks[best_block]) ELSE None))
             ELSE IF starts_with_0x(param[1])
             THEN LET hash == ParseHash(param[1])
                  IN  IF hash # None
                      THEN LoadBlock(anchor, hash[1], FALSE)
                      ELSE Return(anchor, Err("Failed to parse block hash"))
             ELSE Return(anchor, Err("Unsupported block number lookup"))
    ELSE LoadBlock(anchor, block_hash, requested)

\* SubApp::match_anchor
match_anchor(anchor, prefix) == anchor # <<>> /\ anchor[1] = prefix

\* State::update, for the block details view: BlockDetailsApp::update calls
\* parse_anchor_and_load_block with the current anchor, once per frame.
parse_anchor_and_load_block ==
    /\ ~closed
    /\ blocked_send = None
    /\ match_anchor(current_anchor, BLOCK_DETAILS)
    /\ LET r == ParseAnchorAndLoadBlock(current_anchor)
       IN  /\ last_anchor' = r.last_anchor
           /\ block_hash' = r.block_hash
           /\ requested' = r.requested
           /\ res' = r.res
           /\ Send(r.sent)
    /\ UNCHANGED <<current_anchor, anchor_sets, closed, url, need_save, backend_url,
                   event_rx, engine_vars, worker_vars, env_vars, url_sets, old_data>>

\* State::open_anchor, or the location hash of the page (wasm32): the user
\* navigates to another anchor.
open_anchor(anchor) ==
    /\ ~closed
    /\ blocked_send = None
    /\ anchor_sets < MaxAnchorSets
    /\ current_anchor # anchor
    /\ current_anchor' = anchor
    /\ anchor_sets' = anchor_sets + 1
    /\ UNCHANGED <<last_anchor, block_hash, requested, res, closed, url, need_save,
                   backend_url, req_rx, event_rx, blocked_send, engine_vars,
                   worker_vars, env_vars, url_sets, old_data>>

(***************************************************************************)
(* Init: PolymeshApp::new has built the default BackendState and called    *)
(* connect(), which queued ConnectTo(url).                                 *)
(***************************************************************************)
POLYMESH_STAGING == "A"

InitProgram ==
    /\ url = POLYMESH_STAGING
    /\ need_save = TRUE
    /\ genesis_hash = DefaultState.genesis_hash
    /\ best_block = DefaultState.best_block
    /\ preload_blocks = DefaultState.preload_blocks
    /\ preload_next = DefaultState.preload_next
    /\ hash_to_number = DefaultState.hash_to_number
    /\ blocks = DefaultState.blocks
    /\ recent_blocks = DefaultState.recent_blocks
    /\ recent_events = DefaultState.recent_events
    /\ backend_url = url
    /\ req_rx = <<ConnectTo(url)>>
    /\ event_rx = <<>>
    /\ blocked_send = None
    /\ w_pc = "run_backend"
    /\ api = NoUrl
    /\ is_reconnect = FALSE
    /\ w_out = None
    /\ watchers = <<>>
    /\ head = [c \in Chains |-> InitialHead(c)]
    /\ url_sets = 0
    /\ old_data = FALSE
    /\ closed = FALSE
    /\ current_anchor = <<EXPLORER>>
    /\ anchor_sets = 0
    /\ last_anchor = <<>>
    /\ block_hash = ZeroHash
    /\ requested = FALSE
    /\ res = NotCalled

Init ==
    /\ InitProgram
    /\ failures = 0
    /\ final_head = [c \in Chains |-> FinalHead(c)]

(***************************************************************************)
(* SpecIngest: the consumer alone, polling a channel on which every event  *)
(* over the block universe may arrive in any order; the requests it sends  *)
(* are taken off the request channel and not answered.                     *)
(***************************************************************************)
UrlsOf(c) == {u \in Urls : ChainOfUrl(u) = c}

\* The blocks the nodes of Spec ever have.
IngestHashes == UNION {{Produced(c)[i] : i \in 1..FinalHead(c)} : c \in Chains}

AllEvents ==
    {Connected(GenesisOf(c), r) : c \in Chains, r \in BOOLEAN}
        \cup {NewHeader(HeaderOf(h)) : h \in IngestHashes}
        \cup UNION {{BlockInfoEvent(MakeBlockInfo(HeaderOf(h)), u) : u \in UrlsOf(ChainOf(h))} :
                        h \in IngestHashes}

EnvDeliver(ev) ==
    /\ event_rx = <<>>
    /\ blocked_send = None
    /\ event_rx' = <<ev>>
    /\ req_rx' = <<>>
    /\ UNCHANGED <<details_vars, closed, url, need_save, backend_url, blocked_send, engine_vars,
                   worker_vars, env_vars, url_sets, old_data>>

NextIngest ==
    \/ \E ev \in AllEvents : EnvDeliver(ev)
    \/ backend_updates

SpecIngest == Init /\ [][NextIngest]_vars

(***************************************************************************)
(* The nodes (the RPC client library is outside the repository; a call is  *)
(* modelled by its result, or by its failure).                             *)
(***************************************************************************)
IndexOf(h) == CHOOSE i \in 1..Len(Produced(ChainOf(h))) : Produced(ChainOf(h))[i] = h

\* get_block_header(Some(hash)) on the node at url u: Some(header) if the node
\* has the block, else None.
get_block_header(u, h) ==
    IF h \in BlockHashes /\ ChainOf(h) = ChainOfUrl(u) /\ IndexOf(h) <= head[ChainOf(h)]
    THEN Some(HeaderOf(h))
    ELSE None

\* get_block_header(None): the current best header
best_header(u) == HeaderOf(Produced(ChainOfUrl(u))[head[ChainOfUrl(u)]])

\* get_block_hash(0)
get_block_hash_0(u) == GenesisOf(ChainOfUrl(u))

\* A node imports its next block.
Produce(c) ==
    /\ head[c] < final_head[c]
    /\ head' = [head EXCEPT ![c] = head[c] + 1]
    /\ UNCHANGED <<details_vars, closed, final_head, url, need_save, backend_url, req_rx, event_rx, blocked_send,
                   engine_vars, worker_vars, watchers, failures, url_sets, old_data>>

WithoutIndex(s, i) == SubSeq(s, 1, i - 1) \o SubSeq(s, i + 1, Len(s))

Exhausted(w) == w.next > final_head[w.chain]

\* A faulty variant: the subscription misses the first head after it started,
\* as one started after the fetch of the current best header could.
SpawnLate(ws, u) ==
    LET w == [chain |-> ChainOfUrl(u), next |-> head[ChainOfUrl(u)] + 2]
    IN  IF Exhausted(w) THEN ws ELSE Append(ws, w)

\* HeaderWatcher::spawn(sub_blocks, event_tx)
Spawn(ws, u) ==
    LET w == [chain |-> ChainOfUrl(u), next |-> head[ChainOfUrl(u)] + 1]
    IN  IF Exhausted(w) THEN ws ELSE Append(ws, w)

(***************************************************************************)
(* The worker.  An awaited event_tx.send is two steps: the event is put in *)
(* w_out, and WorkerSend queues it once the channel has room; the worker   *)
(* takes no other step meanwhile.  Once the consumer has dropped its       *)
(* Backend, is_closed() is true, a send returns Err and recv returns None  *)
(* when the request channel is empty; the worker ends at "done".           *)
(***************************************************************************)
MayFail == failures < MaxFailures

\* A faulty variant of the loop of start: without the test of is_closed().
RunAgainAlways ==
    /\ is_reconnect' = TRUE
    /\ w_pc' = "connected"

\* run returned Err(..) or Ok(true): start logs the error, sets is_reconnect and
\* calls run again, unless is_closed().
RunAgain ==
    /\ is_reconnect' = TRUE
    /\ w_pc' = IF closed THEN "done" ELSE "connected"

\* req_rx.recv() returns None: the request channel is empty and its sender
\* is gone.  run_backend leaves its loop; run returns Ok(false) and start
\* breaks.
RecvNone ==
    /\ req_rx = <<>>
    /\ closed
    /\ w_pc' = "done"
    /\ UNCHANGED <<req_rx, api, is_reconnect, w_out, failures>>

\* SpawnBackend::run_backend: the loop waiting for the first ConnectTo.
run_backend ==
    /\ w_pc = "run_backend"
    /\ \/ /\ req_rx # <<>>
          /\ req_rx' = Tail(req_rx)
          /\ UNCHANGED w_out
          /\ LET req == Head(req_rx)
             IN  IF req.type = "ConnectTo"
                 THEN \/ /\ api' = req.url        \* Api::new(&url) is Ok
                         \* InnerBackend::start: while !inner.is_closed()
                         /\ w_pc' = IF closed THEN "done" ELSE "connected"
                         /\ is_reconnect' = FALSE
                         /\ UNCHANGED failures
                      \/ /\ MayFail               \* Api::new(&url) is Err: continue
                         /\ failures' = failures + 1
                         /\ UNCHANGED <<api, w_pc, is_reconnect>>
                 ELSE UNCHANGED <<api, w_pc, is_reconnect, failures>>
       \/ RecvNone
    /\ UNCHANGED <<details_vars, closed, url, need_save, backend_url, event_rx, blocked_send, engine_vars,
                   watchers, head, url_sets, old_data, final_head>>

\* InnerBackend::run, first statement: connected(is_reconnect)
connected ==
    /\ w_pc = "connected"
    /\ w_out = None
    /\ \/ /\ w_out' = Some(Connected(get_block_hash_0(api), is_reconnect))
          /\ w_pc' = "subscribe"
          /\ UNCHANGED <<is_reconnect, failures>>
       \/ /\ MayFail                              \* get_block_hash(0) is Err
          /\ failures' = failures + 1
          /\ RunAgain
          /\ UNCHANGED w_out
    /\ UNCHANGED <<details_vars, closed, url, need_save, backend_url, req_rx, event_rx, blocked_send,
                   engine_vars, api, watchers, head, url_sets, old_data, final_head>>

\* InnerBackend::run: subscribe_blocks and HeaderWatcher::spawn
subscribe_blocks ==
    /\ w_pc = "subscribe"
    /\ w_out = None
    /\ \/ /\ watchers' = Spawn(watchers, api)
          /\ w_pc' = "current"
          /\ UNCHANGED <<is_reconnect, failures>>
       \/ /\ MayFail
          /\ failures' = failures + 1
          /\ RunAgain
          /\ UNCHANGED watchers
    /\ UNCHANGED <<details_vars, closed, url, need_save, backend_url, req_rx, event_rx, blocked_send,
                   engine_vars, api, w_out, head, url_sets, old_data, final_head>>

\* InnerBackend::run: "Grab and push the current block"
push_current ==
    /\ w_pc = "current"
    /\ w_out = None
    /\ \/ /\ w_out' = Some(BlockInfoEvent(MakeBlockInfo(best_header(api)), api))
          /\ w_pc' = "serve"
          /\ UNCHANGED <<is_reconnect, failures>>
       \/ /\ MayFail                              \* the header or the events fetch is Err
          /\ failures' = failures + 1
          /\ RunAgain
          /\ UNCHANGED w_out
    /\ UNCHANGED <<details_vars, closed, url, need_save, backend_url, req_rx, event_rx, blocked_send,
                   engine_vars, api, watchers, head, url_sets, old_data, final_head>>

\* InnerBackend::run: one iteration of "Process requests from frontend"
serve ==
    /\ w_pc = "serve"
    /\ w_out = None
    /\ \/ /\ req_rx # <<>>
          /\ req_rx' = Tail(req_rx)
          /\ LET req == Head(req_rx)
             IN  \/ /\ req.type = "ConnectTo"     \* Api::new is Ok: return Ok(true)
                    /\ api' = req.url
                    /\ RunAgain
                    /\ UNCHANGED <<w_out, failures>>
                 \/ /\ req.type = "GetBlockInfo"
                    /\ LET found == get_block_header(api, req.hash)
                       IN  w_out' = IF found = None THEN None
                                    ELSE Some(BlockInfoEvent(MakeBlockInfo(found[1]), api))
                    /\ UNCHANGED <<api, w_pc, is_reconnect, failures>>
                 \/ /\ MayFail                    \* any of the awaited calls is Err
                    /\ failures' = failures + 1
                    /\ RunAgain
                    /\ UNCHANGED <<api, w_out>>
       \/ RecvNone
    /\ UNCHANGED <<details_vars, closed, url, need_save, backend_url, event_rx, blocked_send, engine_vars,
                   watchers, head, url_sets, old_data, final_head>>

\* InnerBackend::send: the awaited event_tx.send completes, with Ok once the
\* channel has room, with Err once the receiver is gone; the Err leaves run.
WorkerSend ==
    /\ w_out # None
    /\ w_out' = None
    /\ IF closed
       THEN RunAgain /\ UNCHANGED event_rx
       ELSE /\ Len(event_rx) < ChannelCapacity
            /\ event_rx' = Append(event_rx, w_out[1])
            /\ UNCHANGED <<w_pc, is_reconnect>>
    /\ UNCHANGED <<details_vars, closed, url, need_save, backend_url, req_rx, blocked_send, engine_vars,
                   api, env_vars, url_sets, old_data>>

(***************************************************************************)
(* HeaderWatcher::run: the subscription yields its next head and the       *)
(* watcher sends NewHeader.  The heads a subscription yields are those the *)
(* node produces after subscribe_blocks.  A stream may end or fail at any  *)
(* time, which ends the task; the model ends a watcher when its stream has *)
(* no further head of the block universe to yield; a stream that fails     *)
(* earlier is a step of SpecStream only (WatcherFails).  Once the receiver *)
(* of the event channel is gone, the send returns Err and the task ends.   *)
(***************************************************************************)
WatcherForwards(i) ==
    LET w == watchers[i]
        after == [w EXCEPT !.next = w.next + 1]
    IN  /\ w.next <= head[w.chain]
        /\ IF closed
           THEN \* event_tx.send is Err: run returns it and the task ends
                /\ watchers' = WithoutIndex(watchers, i)
                /\ UNCHANGED event_rx
           ELSE /\ Len(event_rx) < ChannelCapacity
                /\ event_rx' = Append(event_rx, NewHeader(HeaderOf(Produced(w.chain)[w.next])))
                /\ watchers' = IF Exhausted(after) THEN WithoutIndex(watchers, i)
                               ELSE [watchers EXCEPT ![i] = after]
        /\ UNCHANGED <<details_vars, closed, url, need_save, backend_url, req_rx, blocked_send, engine_vars,
                       worker_vars, head, failures, url_sets, old_data,
                       final_head>>

Next ==
    \/ backend_updates
    \/ BlockingSendReturns
    \/ \E u \in Urls : set_url(u)
    \/ check_need_save
    \/ run_backend
    \/ connected
    \/ subscribe_blocks
    \/ push_current
    \/ serve
    \/ WorkerSend
    \/ \E i \in 1..Len(watchers) : WatcherForwards(i)
    \/ \E c \in Chains : Produce(c)

Spec == Init /\ [][Next]_vars

(***************************************************************************)
(* SpecPreload: the program left alone on its first url while chain 1      *)
(* keeps producing blocks: no RPC call fails and set_url is not called.    *)
(* The UI thread keeps polling, the worker and the watcher tasks keep      *)
(* being scheduled.                                                        *)
(***************************************************************************)
InitPreload ==
    /\ InitProgram
    /\ failures = MaxFailures
    /\ final_head = [c \in Chains |-> FinalHeadLong(c)]

Worker == run_backend \/ connected \/ subscribe_blocks \/ push_current \/ serve \/ WorkerSend

NextPreload ==
    \/ backend_updates
    \/ BlockingSendReturns
    \/ check_need_save
    \/ Worker
    \/ \E i \in 1..Len(watchers) : WatcherForwards(i)
    \/ \E c \in Chains : Produce(c)

SpecPreload ==
    /\ InitPreload
    /\ [][NextPreload]_vars
    /\ WF_vars(backend_updates)
    /\ WF_vars(BlockingSendReturns)
    /\ WF_vars(check_need_save)
    /\ WF_vars(Worker)
    /\ WF_vars(\E i \in 1..Len(watchers) : WatcherForwards(i))

(***************************************************************************)
(* SpecConnect: the program left alone on its first url, with RPC calls    *)
(* that may fail (at most MaxFailures times, so that the node is reachable *)
(* in the end) and the same scheduling as in SpecPreload.                  *)
(***************************************************************************)
SpecConnect ==
    /\ Init
    /\ [][NextPreload]_vars
    /\ WF_vars(backend_updates)
    /\ WF_vars(BlockingSendReturns)
    /\ WF_vars(check_need_save)
    /\ WF_vars(Worker)
    /\ WF_vars(\E i \in 1..Len(watchers) : WatcherForwards(i))

(***************************************************************************)
(* SpecStream: as SpecPreload, with header subscriptions that may fail or  *)
(* end.  HeaderWatcher::run then returns, start logs the error, and the    *)
(* task is over; nothing else in the program refers to the task.           *)
(***************************************************************************)
WatcherFails(i) ==
    /\ watchers' = WithoutIndex(watchers, i)
    /\ UNCHANGED <<details_vars, closed, url, need_save, backend_url, req_rx, event_rx, blocked_send,
                   engine_vars, worker_vars, head, failures, url_sets, old_data,
                   final_head>>

NextStream ==
    \/ NextPreload
    \/ \E i \in 1..Len(watchers) : WatcherFails(i)

SpecStream ==
    /\ InitPreload
    /\ [][NextStream]_vars
    /\ WF_vars(backend_updates)
    /\ WF_vars(BlockingSendReturns)
    /\ WF_vars(check_need_save)
    /\ WF_vars(Worker)
    /\ WF_vars(\E i \in 1..Len(watchers) : WatcherForwards(i))

(***************************************************************************)
(* SpecShutdown: the program left alone on its first url, with RPC calls   *)
(* that may fail, until the application exits and drops its Backend while  *)
(* it is not inside a call of it.  The tasks keep being scheduled and the  *)
(* node keeps producing the blocks of its universe.                        *)
(***************************************************************************)
\* The Backend is dropped, and with it the receiver of the event channel
\* (the events queued are lost) and the sender of the request channel.
Close ==
    /\ ~closed
    /\ blocked_send = None
    /\ closed' = TRUE
    /\ event_rx' = <<>>
    /\ UNCHANGED <<details_vars, url, need_save, backend_url, req_rx, blocked_send,
                   engine_vars, worker_vars, env_vars, url_sets, old_data>>

\* Native build: run_backend has returned, the thread's closure ends and the
\* runtime is dropped with the tasks spawned on it.  (In the wasm32 build
\* there is no runtime to drop and the watcher tasks go on.)
RuntimeDropped ==
    /\ w_pc = "done"
    /\ watchers # <<>>
    /\ watchers' = <<>>
    /\ UNCHANGED <<details_vars, closed, url, need_save, backend_url, req_rx, event_rx, blocked_send,
                   engine_vars, worker_vars, head, failures, url_sets, old_data,
                   final_head>>

NextShutdown ==
    \/ NextPreload
    \/ Close
    \/ RuntimeDropped

SpecShutdown ==
    /\ Init
    /\ [][NextShutdown]_vars
    /\ WF_vars(backend_updates)
    /\ WF_vars(BlockingSendReturns)
    /\ WF_vars(check_need_save)
    /\ WF_vars(Worker)
    /\ WF_vars(\E i \in 1..Len(watchers) : WatcherForwards(i))
    /\ WF_vars(\E c \in Chains : Produce(c))

(***************************************************************************)
(* SpecDetails: the program on its first url, no RPC call failing, with a  *)
(* user who navigates between the views; the scheduling is that of         *)
(* SpecPreload, and the current view is updated in every frame.            *)
(***************************************************************************)
InitDetails ==
    /\ InitProgram
    /\ failures = MaxFailures
    /\ final_head = [c \in Chains |-> FinalHead(c)]

NextDetails ==
    \/ NextPreload
    \/ \E anchor \in Anchors : open_anchor(anchor)
    \/ parse_anchor_and_load_block

SpecDetails ==
    /\ InitDetails
    /\ [][NextDetails]_vars
    /\ WF_vars(backend_updates)
    /\ WF_vars(BlockingSendReturns)
    /\ WF_vars(check_need_save)
    /\ WF_vars(parse_anchor_and_load_block)
    /\ WF_vars(Worker)
    /\ WF_vars(\E i \in 1..Len(watchers) : WatcherForwards(i))

(***************************************************************************)
(* Properties.                                                             *)
(***************************************************************************)
\* The step is one iteration of backend_updates handling an event of type t.
Ingests(t) ==
    /\ event_rx # <<>>
    /\ Head(event_rx).type = t
    /\ event_rx' = Tail(event_rx)

NoDuplicates(s) == \A i, j \in 1..Len(s) : s[i] = s[j] => i = j

\* C1: after every ingested event recent_blocks holds at most
\* MAX_RECENT_BLOCKS numbers and recent_events at most MAX_RECENT_EVENTS
\* summaries.
C1_CachesBounded ==
    /\ Len(recent_blocks) <= MAX_RECENT_BLOCKS
    /\ Len(recent_events) <= MAX_RECENT_EVENTS

\* Both sequences are full and more blocks were ingested than fit.
C1_Witness ==
    /\ Len(recent_blocks) = MAX_RECENT_BLOCKS
    /\ Len(recent_events) = MAX_RECENT_EVENTS
    /\ Cardinality(DOMAIN hash_to_number) > MAX_RECENT_BLOCKS

\* C2: after every ingested event the keys of blocks are exactly the numbers
\* in recent_blocks, no number is in recent_blocks twice, and blocks has at
\* most MAX_RECENT_BLOCKS entries (so blocks[n] exists for every n iterated
\* from recent_blocks).
C2_BlocksMatchRecent ==
    /\ DOMAIN blocks = Range(recent_blocks)
    /\ NoDuplicates(recent_blocks)
    /\ Cardinality(DOMAIN blocks) <= MAX_RECENT_BLOCKS

\* Number 2 was ingested with both of its hashes and is cached, the cache is
\* full, and a number ingested earlier has been evicted.
C2_Witness ==
    /\ {12, 22} \subseteq DOMAIN hash_to_number
    /\ 2 \in DOMAIN blocks
    /\ Len(recent_blocks) = MAX_RECENT_BLOCKS
    /\ \E h \in DOMAIN hash_to_number : hash_to_number[h] \notin DOMAIN blocks

\* C3: hash_to_number is exactly in sync with blocks: h maps to n if and only
\* if blocks has an entry for n whose BlockInfo has hash h.
C3_HashIndexInSync ==
    /\ \A h \in DOMAIN hash_to_number :
           /\ hash_to_number[h] \in DOMAIN blocks
           /\ blocks[hash_to_number[h]].hash = h
    /\ \A n \in DOMAIN blocks :
           /\ blocks[n].hash \in DOMAIN hash_to_number
           /\ hash_to_number[blocks[n].hash] = n

\* C4: ingesting Connected{genesis = G2, is_reconnect = true} while
\* genesis_hash is Some(G) with G # G2 leaves the four caches empty and
\* best_block = 0 right after that event, and genesis_hash = Some(G2).
C4_ChangedGenesisClears ==
    [][(/\ Ingests("Connected")
        /\ Head(event_rx).is_reconnect
        /\ genesis_hash # None
        /\ genesis_hash # Some(Head(event_rx).genesis))
       => (/\ DOMAIN blocks' = {}
           /\ DOMAIN hash_to_number' = {}
           /\ recent_blocks' = <<>>
           /\ recent_events' = <<>>
           /\ best_block' = 0
           /\ genesis_hash' = Some(Head(event_rx).genesis))]_vars

\* The reconnect event of the other chain is next to be polled while every
\* cache holds data of chain 1.
C4_Witness ==
    /\ event_rx = <<Connected(GenesisOf(2), TRUE)>>
    /\ blocked_send = None
    /\ genesis_hash = Some(GenesisOf(1))
    /\ DOMAIN blocks # {}
    /\ DOMAIN hash_to_number # {}
    /\ recent_blocks # <<>>
    /\ recent_events # <<>>
    /\ best_block > 0

\* C5: ingesting Connected{genesis = G, is_reconnect = true} while
\* genesis_hash is already Some(G) leaves the four caches, best_block,
\* preload_blocks and preload_next unchanged.
C5_SameGenesisKeeps ==
    [][(/\ Ingests("Connected")
        /\ Head(event_rx).is_reconnect
        /\ genesis_hash = Some(Head(event_rx).genesis))
       => UNCHANGED <<blocks, hash_to_number, recent_blocks, recent_events,
                      best_block, preload_blocks, preload_next>>]_vars

\* The reconnect event of the same chain is next to be polled while the caches
\* hold data and a preload walk is under way.
C5_Witness ==
    /\ event_rx = <<Connected(GenesisOf(1), TRUE)>>
    /\ blocked_send = None
    /\ genesis_hash = Some(GenesisOf(1))
    /\ DOMAIN blocks # {}
    /\ recent_events # <<>>
    /\ best_block > 0
    /\ preload_next # None
    /\ preload_blocks < PRELOAD_BLOCKS

\* The step stores a BlockInfo that the worker fetched over a connection to
\* the url the consumer requested last.
StoresFromRequestedUrl ==
    /\ Ingests("BlockInfo")
    /\ Head(event_rx).via = backend_url

\* C6: once the consumer has requested another url (set_url, then
\* check_need_save), no BlockInfo fetched over the new connection is stored
\* while the caches still hold what they held before, uncleared, whether or
\* not the new node reports the same genesis.
C6_UrlChangeClears ==
    [][StoresFromRequestedUrl => ~old_data]_vars

\* C6, amended: a BlockInfo fetched over the new connection is stored over
\* uncleared older data only if the new node is on the chain of that data:
\* genesis_hash is the genesis of the block's chain and every cached block is
\* of that chain.  (When the new node reports another genesis the caches were
\* cleared at its Connected event, C4.)
C6_KeptOnlyOnSameGenesis ==
    [][(StoresFromRequestedUrl /\ old_data) =>
        LET c == ChainOf(Head(event_rx).block.hash)
        IN  /\ genesis_hash = Some(GenesisOf(c))
            /\ \A n \in DOMAIN blocks : ChainOf(blocks[n].hash) = c
            /\ \A h \in DOMAIN hash_to_number : ChainOf(h) = c]_vars

\* After a change of url to a node of the same chain, a block fetched from it
\* is next to be polled while the caches hold the blocks of the old connection.
C6_Witness ==
    /\ event_rx # <<>>
    /\ Head(event_rx).type = "BlockInfo"
    /\ Head(event_rx).via = backend_url
    /\ blocked_send = None
    /\ url_sets > 0
    /\ backend_url = "B"
    /\ old_data
    /\ DOMAIN blocks # {}

\* C7: ingesting a BlockInfo whose number is already in blocks (with the same
\* or another hash) leaves the BlockInfo stored under that number,
\* hash_to_number and recent_blocks unchanged.
C7_InsertIdempotent ==
    [][(/\ Ingests("BlockInfo")
        /\ Head(event_rx).block.header.number \in DOMAIN blocks)
       => (/\ blocks' = blocks
           /\ hash_to_number' = hash_to_number
           /\ recent_blocks' = recent_blocks)]_vars

\* C10: for an ingested BlockInfo b, if b.number > best_block then best_block
\* becomes b.number and a number not yet cached goes to the front of
\* recent_blocks; otherwise best_block is unchanged and a number not yet cached
\* is appended at the back; in both cases the sequence is then cut to its first
\* MAX_RECENT_BLOCKS entries, and a number already cached moves nothing.
C10_PlacementByBestBlock ==
    [][Ingests("BlockInfo") =>
        LET n == Head(event_rx).block.header.number
            first == n \notin DOMAIN blocks
            kept(q) == SubSeq(q, 1, Min(Len(q), MAX_RECENT_BLOCKS))
        IN  IF n > best_block
            THEN /\ best_block' = n
                 /\ recent_blocks' =
                        IF first THEN kept(<<n>> \o recent_blocks) ELSE recent_blocks
            ELSE /\ best_block' = best_block
                 /\ recent_blocks' =
                        IF first THEN kept(Append(recent_blocks, n)) ELSE recent_blocks]_vars

\* Block #1 is next to be polled after #2 was ingested on its own: it is not
\* best and not cached, and there is room at the back.
C10_Witness ==
    /\ event_rx # <<>>
    /\ Head(event_rx).type = "BlockInfo"
    /\ Head(event_rx).block.header.number = 1
    /\ blocked_send = None
    /\ best_block = 2
    /\ recent_blocks = <<2>>

\* The step sends request r: it is queued, or the consumer blocks holding it.
Sends(r) ==
    \/ req_rx' = Append(req_rx, r) /\ blocked_send' = None
    \/ req_rx' = req_rx /\ blocked_send' = Some(r)

SendsNothing == req_rx' = req_rx /\ blocked_send' = blocked_send

\* C8: from a fresh connection to a chain of at least PRELOAD_BLOCKS + 1
\* blocks, with no fetch failing: a BlockInfo ingest either takes one off
\* preload_blocks and sends exactly one GetBlockInfo, for the parent of the
\* preload target it ingests, or leaves the counter alone and sends nothing (so
\* PRELOAD_BLOCKS requests in all, none once the counter is 0); and
\* preload_blocks eventually is 0 and stays 0.
C8_PreloadTerminates ==
    /\ [][Ingests("BlockInfo") =>
            LET b == Head(event_rx).block
            IN  \/ /\ preload_blocks > 0
                   /\ preload_next \in {None, Some(b.hash)}
                   /\ preload_blocks' = preload_blocks - 1
                   /\ preload_next' = Some(b.header.parent_hash)
                   /\ Sends(PreloadRequest(b.header.parent_hash))
                \/ /\ UNCHANGED <<preload_blocks, preload_next>>
                   /\ SendsNothing]_vars
    /\ <>[](preload_blocks = 0)

\* C9: when the preload walk ingests its target and that block has no
\* resolvable parent (its parent_hash is ZeroHash) while preload_blocks is not
\* 0, no GetBlockInfo is sent and preload_blocks is not decremented.
C9_PreloadHaltsAtGenesis ==
    [][(/\ Ingests("BlockInfo")
        /\ preload_blocks # 0
        /\ preload_next \in {None, Some(Head(event_rx).block.hash)}
        /\ Head(event_rx).block.header.parent_hash = ZeroHash)
       => (/\ SendsNothing
           /\ preload_blocks' = preload_blocks)]_vars

\* C11: the consumer never waits on the worker; in particular no state is
\* reachable in which the consumer waits in blocking_send for room in the
\* request channel while the worker waits in send for room in the event
\* channel, both channels being full.
C11_NoDeadlock ==
    ~(/\ blocked_send # None
      /\ Len(req_rx) = ChannelCapacity
      /\ w_out # None
      /\ Len(event_rx) = ChannelCapacity)

\* C12: when the header fetch or the event fetch of a single GetBlockInfo
\* request fails, the connection cycle goes on: the worker stays in its
\* request loop, ready for the next queued request, and the connect protocol
\* (Connected event, new header subscription) is not started again.
C12_RequestFailureKeepsCycle ==
    [][(/\ w_pc = "serve"
        /\ req_rx # <<>>
        /\ Head(req_rx).type = "GetBlockInfo"
        /\ failures' = failures + 1)
       => (w_pc' = "serve" /\ watchers' = watchers)]_vars

\* C16: at any time at most one header watcher is active.  The statement is
\* restricted to behaviours in which the url is never changed, so that every
\* restart of the connect protocol runs on the same Api and the earlier
\* subscription is certainly still open.
C16_OneWatcher ==
    url_sets = 0 => Len(watchers) <= 1

\* The next event polled is a block whose push makes recent_blocks exceed
\* MAX_RECENT_BLOCKS.
RecentBlocksOverflow ==
    /\ event_rx # <<>>
    /\ Head(event_rx).type = "BlockInfo"
    /\ Head(event_rx).block.header.number \notin DOMAIN blocks
    /\ Len(recent_blocks) = MAX_RECENT_BLOCKS

\* C17: when ingesting a block with a new number into a full recent_blocks,
\* the number evicted is the one at the tail after the push (the former last
\* number if the block is pushed at the front, the new number itself if it
\* is pushed at the back); it leaves blocks in the same step, every other
\* number stays, and the front element is not the one evicted.
C17_EvictsTail ==
    [][(Ingests("BlockInfo") /\ RecentBlocksOverflow) =>
       LET number == Head(event_rx).block.header.number
           at_front == number > best_block
           tail == IF at_front THEN recent_blocks[Len(recent_blocks)] ELSE number
           front == IF at_front THEN number ELSE recent_blocks[1]
       IN  /\ tail \notin Range(recent_blocks')
           /\ tail \notin DOMAIN blocks'
           /\ Range(recent_blocks') = (Range(recent_blocks) \cup {number}) \ {tail}
           /\ DOMAIN blocks' = Range(recent_blocks')
           /\ recent_blocks'[1] = front]_vars

\* A full cache about to ingest a new best block: the push is at the front
\* and the former last number is the tail.
C17_Witness ==
    /\ RecentBlocksOverflow
    /\ blocked_send = None
    /\ Head(event_rx).block.header.number > best_block
    /\ recent_blocks[Len(recent_blocks)] # recent_blocks[1]

\* The requests the consumer has issued and the worker has not taken yet.
Outstanding == req_rx \o blocked_send

PreloadOutstanding ==
    {i \in 1..Len(Outstanding) : "preload" \in DOMAIN Outstanding[i]}

\* C19: at most one preload request is outstanding at any time.
C19_OnePreloadOutstanding ==
    Cardinality(PreloadOutstanding) <= 1

\* C19, amended: while preload_next is Some(h), ingesting a BlockInfo with
\* another hash leaves preload_blocks and preload_next unchanged and sends
\* nothing; ingesting the BlockInfo with hash h while the counter is not 0
\* takes exactly 1 off the counter, sets preload_next to the parent hash and
\* sends exactly one GetBlockInfo, for that parent.  No ingest sends more
\* than one request.
C19_AdvancesOnlyOnTarget ==
    [][Ingests("BlockInfo") =>
         LET b == Head(event_rx).block
         IN  /\ (preload_next # None /\ preload_next # Some(b.hash))
                    => (UNCHANGED <<preload_blocks, preload_next>> /\ SendsNothing)
             /\ (preload_next = Some(b.hash) /\ preload_blocks # 0)
                    => (/\ preload_blocks' = preload_blocks - 1
                        /\ preload_next' = Some(b.header.parent_hash)
                        /\ Sends(PreloadRequest(b.header.parent_hash)))
             /\ Len(req_rx' \o blocked_send') <= Len(Outstanding) + 1]_vars

\* The walk is under way and the next event polled is a block that is not
\* its target, announced by the live subscription.
C19_Witness ==
    /\ blocked_send = None
    /\ preload_blocks # 0
    /\ preload_next # None
    /\ event_rx # <<>>
    /\ Head(event_rx).type = "BlockInfo"
    /\ preload_next # Some(Head(event_rx).block.hash)
    /\ Head(event_rx).block.header.number > best_block

\* C20: ingesting a BlockInfo pushes one summary for each label of the block
\* whose module is not System, with the number of events of the block that
\* bear the label as count and the index of the first of them as number; all
\* are pushed at the front of recent_events if the block number is above
\* best_block, else at the back (in some order, and before the trim to
\* MAX_RECENT_EVENTS); the block is stored with all its events, the ignored
\* ones included.
C20_SummariesPerLabel ==
    [][Ingests("BlockInfo") =>
         LET b == Head(event_rx).block
             evs == b.events
             labels == {evs[i].name : i \in 1..Len(evs)} \ {l \in {evs[i].name : i \in 1..Len(evs)} : l[1] = "System"}
             occurrences(l) == {i \in 1..Len(evs) : evs[i].name = l}
             first(l) == CHOOSE i \in occurrences(l) : \A j \in occurrences(l) : i <= j
             expected == {[block |-> b.header.number, number |-> first(l) - 1, name |-> l,
                           count |-> Cardinality(occurrences(l))] : l \in labels}
             trimmed(s) == SubSeq(s, 1, Min(Len(s), MAX_RECENT_EVENTS))
         IN  /\ \E pushed \in IterationOrders(expected) :
                    recent_events' = trimmed(IF b.header.number > best_block
                                             THEN pushed \o recent_events
                                             ELSE recent_events \o pushed)
             /\ b.header.number \in DOMAIN blocks' => blocks'[b.header.number].events = evs]_vars

\* A summary counting two events of one label, the first at index 1, of a
\* block that is stored with the System event it also holds.
C20_Witness ==
    \E i \in 1..Len(recent_events) :
        /\ recent_events[i].count = 2
        /\ recent_events[i].number = 1
        /\ recent_events[i].block \in DOMAIN blocks
        /\ \E j \in 1..Len(blocks[recent_events[i].block].events) :
               blocks[recent_events[i].block].events[j].name[1] = "System"

\* The worker takes a request off the request channel.
TakesRequest == req_rx # <<>> /\ req_rx' = Tail(req_rx)

\* The steps of a connection cycle, in their order.
CycleOrder ==
    {<<"connected", "subscribe">>, <<"subscribe", "current">>, <<"current", "serve">>}

\* C18: in a connection cycle the worker first hands Connected to the event
\* channel, then starts the header subscription, then fetches and pushes the
\* current best block, and only then takes requests; a cycle is left only to
\* start the next one.  The block pushed is the node's best block at the time
\* of the fetch, it is the first BlockInfo the worker sends after Connected
\* (no request is taken before), and the subscription of the cycle yields
\* every block the node produces after the fetch.
C18_CycleSteps ==
    [][LET c == ChainOfUrl(api)
       IN  /\ w_pc' # w_pc =>
                \/ <<w_pc, w_pc'>> \in CycleOrder
                \/ w_pc' = "connected"
           /\ TakesRequest => (w_pc \in {"run_backend", "serve"} /\ w_out = None)
           /\ (w_pc = "connected" /\ w_pc' = "subscribe") =>
                /\ w_out' = Some(Connected(GenesisOf(c), is_reconnect))
                /\ watchers' = watchers
           /\ (w_pc = "subscribe" /\ w_pc' = "current") =>
                /\ w_out = None
                /\ w_out' = None
                /\ head[c] < final_head[c] =>
                       watchers' = Append(watchers, [chain |-> c, next |-> head[c] + 1])
           /\ (w_pc = "current" /\ w_pc' = "serve") =>
                /\ w_out = None
                /\ w_out' # None
                /\ w_out'[1].type = "BlockInfo"
                /\ w_out'[1].block.hash = Produced(c)[head[c]]
                /\ head[c] < final_head[c] =>
                       /\ watchers # <<>>
                       /\ watchers[Len(watchers)].chain = c
                       /\ watchers[Len(watchers)].next <= head[c] + 1]_vars

\* The worker has just pushed the connection-time best block, a block the
\* node produced after the subscription of the cycle started: the watcher of
\* the cycle is about to announce the same block.
C18_Witness ==
    /\ w_pc = "serve"
    /\ w_out # None
    /\ w_out[1].type = "BlockInfo"
    /\ w_out[1].block.hash = Produced(ChainOfUrl(api))[head[ChainOfUrl(api)]]
    /\ watchers # <<>>
    /\ watchers[Len(watchers)].chain = ChainOfUrl(api)
    /\ watchers[Len(watchers)].next = head[ChainOfUrl(api)]

\* The worker hands to the event channel the Connected event of a connection
\* to the url the consumer asked for.
ConnectedEmitted ==
    /\ w_out # None
    /\ w_out[1].type = "Connected"
    /\ api = backend_url

\* C13: the consumer asks once for a connection to its url; whether or not
\* the handshake of that request fails, the worker eventually emits
\* Connected for that url, without a further request.
C13_ConnectRetried ==
    <>ConnectedEmitted

\* The worker has subscribed in its current cycle, no watcher is left and the
\* node has blocks yet to produce: the subscription of the cycle has failed
\* (one that yielded every block of the node ends only after the last one).
StreamLost ==
    /\ w_pc \in {"current", "serve"}
    /\ watchers = <<>>
    /\ head[ChainOfUrl(api)] < final_head[ChainOfUrl(api)]

\* C14: once the header subscription has failed, the worker eventually
\* starts the connect protocol again as a reconnect, which brings a new
\* subscription.
C14_StreamFailureRestarts ==
    StreamLost ~> (w_pc = "connected" /\ is_reconnect)

Announced(h) ==
    /\ event_rx # <<>>
    /\ Head(event_rx) = NewHeader(HeaderOf(h))

\* C21: ingesting NewHeader(h) sends exactly one GetBlockInfo(hash(h)) and
\* leaves the caches and the preload state unchanged; the worker answers a
\* GetBlockInfo for a block of its node with the BlockInfo of that block; and
\* with no fetch failing, every header the subscription delivers is
\* eventually followed by the ingest of the BlockInfo of its block.
C21_HeaderLeadsToBlockInfo ==
    /\ [][Ingests("NewHeader") =>
            /\ Sends(GetBlockInfo(HeaderHash(Head(event_rx).header)))
            /\ UNCHANGED engine_vars]_vars
    /\ [][(w_pc = "serve" /\ TakesRequest /\ Head(req_rx).type = "GetBlockInfo"
             /\ get_block_header(api, Head(req_rx).hash) # None)
          => (/\ w_out' # None
              /\ w_out'[1].type = "BlockInfo"
              /\ w_out'[1].block.hash = Head(req_rx).hash)]_vars
    /\ \A h \in BlockHashes : Announced(h) ~> (h \in DOMAIN hash_to_number)

\* The anchor is one of the block details view whose parameter begins with
\* 0x and is not the hex text of exactly HashBytes bytes.
MalformedHash(anchor) ==
    /\ match_anchor(anchor, BLOCK_DETAILS)
    /\ LET param == Tail(anchor)
       IN  /\ starts_with_0x(param)
           /\ ~(/\ Len(param) = 2 + 2 * HashBytes
                /\ \A i \in 3..Len(param) : IsHex(param[i]))

\* C22: every call of parse_anchor_and_load_block made while the current
\* anchor has a malformed hash returns an error, sends no request and leaves
\* the caches unchanged.
C22_MalformedAnchorIsError ==
    [][(parse_anchor_and_load_block /\ MalformedHash(current_anchor))
       => (res'.type = "Err" /\ SendsNothing /\ UNCHANGED engine_vars)]_vars

\* A ConnectTo request is queued or held by the blocked consumer.
ConnectPending ==
    \E i \in 1..Len(Outstanding) : Outstanding[i].type = "ConnectTo"

\* C23: whenever no ConnectTo request is pending and the worker has a
\* connection, the url recorded by Backend::connect_to is the url of that
\* connection.
C23_RecordedUrlIsConnectedUrl ==
    (~ConnectPending /\ api # NoUrl) => backend_url = api

\* The block details view has requested block h, which the node of the
\* worker's connection has.
Requested(h) ==
    /\ requested
    /\ block_hash = h
    /\ api # NoUrl
    /\ get_block_header(api, h) # None

\* The block hashes the anchors name.
AnchorHashes ==
    {h \in BlockHashes :
        \E a \in Anchors : /\ match_anchor(a, BLOCK_DETAILS)
                           /\ starts_with_0x(Tail(a))
                           /\ ParseHash(Tail(a)) = Some(h)}

\* C24: with no fetch failing, once the block details view has requested a
\* block that the node can resolve, a state is eventually reached in which
\* the lookup by its hash returns a block.
C24_RequestedBlockIsLoaded ==
    \A h \in AnchorHashes : Requested(h) ~> (Lookup(h) # None)

\* C25: in every reachable state the lookup of a hash through hash_to_number
\* and blocks returns nothing or a block whose own hash is the one looked up.
C25_LookupIsSound ==
    \A h \in BlockHashes : Lookup(h) = None \/ Lookup(h)[1].hash = h

\* The greatest block number ingested since the last clear, 0 if none: every
\* ingested BlockInfo leaves its number in hash_to_number, which only clear
\* empties.
MaxIngested ==
    LET numbers == {hash_to_number[h] : h \in DOMAIN hash_to_number} \cup {0}
    IN  CHOOSE n \in numbers : \A m \in numbers : m <= n

\* C26: best_block is the greatest block number ingested since the last
\* clear (0 if none); it does not decrease except by a clear; and when
\* recent_blocks is not empty, its front is best_block and blocks has an
\* entry for best_block.
C26_BestBlockIsMaximum ==
    /\ [](best_block = MaxIngested)
    /\ [](recent_blocks # <<>> =>
              Head(recent_blocks) = best_block /\ best_block \in DOMAIN blocks)
    /\ [][best_block' >= best_block \/ (best_block' = 0 /\ hash_to_number' = EmptyMap)]_vars

\* A block that is older than the best block and not cached is at the head
\* of the channel while recent_blocks is full.
C26_Witness ==
    /\ event_rx # <<>>
    /\ Head(event_rx).type = "BlockInfo"
    /\ Len(recent_blocks) = MAX_RECENT_BLOCKS
    /\ best_block > 1
    /\ Head(event_rx).block.header.number < best_block
    /\ Head(event_rx).block.header.number \notin DOMAIN blocks

HashesOf(c) == {h \in BlockHashes : ChainOf(h) = c}

\* What the caches can hold of chain c: its blocks, their numbers and the
\* summaries of their events.
ChainNumbers == [c \in Chains |-> {HeaderOf(h).number : h \in HashesOf(c)}]

ChainSummaries ==
    [c \in Chains |-> UNION {EventSummaries(MakeBlockInfo(HeaderOf(h))) : h \in HashesOf(c)}]

NumbersOf(c) == ChainNumbers[c]

SummariesOf(c) == ChainSummaries[c]

OnlyOf(c) ==
    /\ \A n \in DOMAIN blocks : ChainOf(blocks[n].hash) = c
    /\ Range(recent_blocks) \subseteq NumbersOf(c)
    /\ Range(recent_events) \subseteq SummariesOf(c)

\* C27: the caches hold blocks and events of the chain named by genesis_hash
\* only: once a Connected event has been ingested, and so after one with a
\* changed genesis, blocks, recent_blocks and recent_events hold nothing of
\* another chain.
C27_CachesOfOneChain ==
    \A c \in Chains : genesis_hash = Some(GenesisOf(c)) => OnlyOf(c)

\* After a change to a node of another chain the caches hold blocks and
\* events of the new chain, a watcher of the old connection is still
\* running, and the worker, on the new connection, is about to take a
\* request for a block of the old chain.
C27_Witness ==
    /\ genesis_hash = Some(GenesisOf(2))
    /\ DOMAIN blocks # {}
    /\ recent_events # <<>>
    /\ \E i \in 1..Len(watchers) : watchers[i].chain = 1
    /\ api = "C"
    /\ w_pc = "serve"
    /\ w_out = None
    /\ req_rx # <<>>
    /\ Head(req_rx).type = "GetBlockInfo"
    /\ ChainOf(Head(req_rx).hash) = 1

====
